---- MODULE Spec2Model ----
(***************************************************************************)
(* Model of the SQLite Explorer MCP server (src/SQLite Explorer/server.py) *)
(* and of the seeding script (src/SQLite Explorer/create_db.py).           *)
(*                                                                         *)
(* Python strings that the code inspects (SQL statements, table names) are *)
(* sequences of one-character strings, so that strip(), upper(),           *)
(* startswith() and ORDER BY name are computed rather than assumed.        *)
(***************************************************************************)
EXTENDS Integers, Sequences, FiniteSets, TLC

(* ---------------------------- bounds ---------------------------------- *)
\* insights appended before the model stops appending
MaxInsights == 3
\* lines a client forwards to the model before the model stops reading them
MaxTurns == 3
\* rows a table may hold before the model stops inserting
MaxRows == 6

(* ------------------------ character strings --------------------------- *)
LowerLetters == <<"a","b","c","d","e","f","g","h","i","j","k","l","m","n","o","p","q","r","s","t","u","v","w","x","y","z">>
UpperLetters == <<"A","B","C","D","E","F","G","H","I","J","K","L","M","N","O","P","Q","R","S","T","U","V","W","X","Y","Z">>
\* the characters the model's texts use, in code-point order
CodePoints == <<"\t","\n"," ","'","(",")","*",",","/","0","1","2",";","=">> \o UpperLetters \o <<"_">> \o LowerLetters
Whitespace == {" ", "\n", "\t"}

Chars == {CodePoints[i] : i \in 1..Len(CodePoints)}
OrdOf == [c \in Chars |-> CHOOSE i \in 1..Len(CodePoints) : CodePoints[i] = c]
UpperOf ==
  [c \in Chars |->
     IF \E i \in 1..26 : LowerLetters[i] = c
       THEN UpperLetters[CHOOSE i \in 1..26 : LowerLetters[i] = c]
       ELSE c]

LowerOf ==
  [c \in Chars |->
     IF \E i \in 1..26 : UpperLetters[i] = c
       THEN LowerLetters[CHOOSE i \in 1..26 : UpperLetters[i] = c]
       ELSE c]

Ord(c) == OrdOf[c]
UpperChar(c) == UpperOf[c]

\* str.upper()
upper(s) == [i \in 1..Len(s) |-> UpperChar(s[i])]

\* str.lower()
lower(s) == [i \in 1..Len(s) |-> LowerOf[s[i]]]

RECURSIVE lstrip(_)
lstrip(s) == IF s # <<>> /\ Head(s) \in Whitespace THEN lstrip(Tail(s)) ELSE s
RECURSIVE rstrip(_)
rstrip(s) == IF s # <<>> /\ s[Len(s)] \in Whitespace THEN rstrip(SubSeq(s, 1, Len(s) - 1)) ELSE s

\* str.strip()
strip(s) == rstrip(lstrip(s))

\* str.startswith(prefix)
startswith(s, p) == Len(p) <= Len(s) /\ SubSeq(s, 1, Len(p)) = p

\* str.startswith((p1, p2, ...))
startswith_any(s, ps) == \E p \in ps : startswith(s, p)

\* byte-wise string comparison (SQLite's BINARY collation)
LexLess(a, b) ==
  \E k \in 1..(Len(a) + 1) :
    /\ k <= Len(b)
    /\ \A j \in 1..(k - 1) : a[j] = b[j]
    /\ (k = Len(a) + 1 \/ Ord(a[k]) < Ord(b[k]))

\* ORDER BY name
RECURSIVE OrderByName(_)
OrderByName(S) ==
  IF S = {} THEN <<>>
  ELSE LET m == CHOOSE x \in S : \A y \in S \ {x} : LexLess(x, y)
       IN <<m>> \o OrderByName(S \ {m})

(* ------------------------------ texts --------------------------------- *)
SELECT_KW == <<"S","E","L","E","C","T">>
CREATE_TABLE_KW == <<"C","R","E","A","T","E"," ","T","A","B","L","E">>
MutationPrefixes == {
  <<"I","N","S","E","R","T">>, <<"U","P","D","A","T","E">>, <<"D","E","L","E","T","E">>,
  <<"C","R","E","A","T","E">>, <<"D","R","O","P">>, <<"A","L","T","E","R">> }

users == <<"u","s","e","r","s">>
products == <<"p","r","o","d","u","c","t","s">>
orders == <<"o","r","d","e","r","s">>
sqlite_sequence == <<"s","q","l","i","t","e","_","s","e","q","u","e","n","c","e">>
nosuch == <<"n","o","s","u","c","h">>
QListTables == <<"S","E","L","E","C","T"," ","n","a","m","e"," ","F","R","O","M"," ","s","q","l","i","t","e","_","m","a","s","t","e","r"," ","W","H","E","R","E"," ","t","y","p","e","=","'","t","a","b","l","e","'"," ","O","R","D","E","R"," ","B","Y"," ","n","a","m","e",";">>
PragmaHead == <<"P","R","A","G","M","A"," ","t","a","b","l","e","_","i","n","f","o","(">>
PragmaTail == <<")",";">>
QSelect == <<" ","s","e","l","e","c","t"," ","*"," ","f","r","o","m"," ","p","r","o","d","u","c","t","s","\n">>
QSelected == <<"S","E","L","E","C","T","E","D">>
QInsert == <<"I","N","S","E","R","T"," ","I","N","T","O"," ","p","r","o","d","u","c","t","s","(","n","a","m","e",",","p","r","i","c","e",")"," ","V","A","L","U","E","S","(","'","x","'",",","1",")">>
QUpdate == <<"u","p","d","a","t","e"," ","p","r","o","d","u","c","t","s"," ","s","e","t"," ","p","r","i","c","e","=","2">>
QDelete == <<"D","E","L","E","T","E"," ","F","R","O","M"," ","p","r","o","d","u","c","t","s">>
QCreate == <<"\n","C","R","E","A","T","E"," ","T","A","B","L","E"," ","p","r","o","d","u","c","t","s","(","i","d"," ","I","N","T","E","G","E","R"," ","P","R","I","M","A","R","Y"," ","K","E","Y",",","n","a","m","e",",","p","r","i","c","e",")">>
QDrop == <<"D","r","o","p"," ","T","a","b","l","e"," ","p","r","o","d","u","c","t","s">>
QAlter == <<"A","L","T","E","R"," ","T","A","B","L","E"," ","p","r","o","d","u","c","t","s"," ","A","D","D"," ","C","O","L","U","M","N"," ","n","o","t","e">>
QReplace == <<"R","E","P","L","A","C","E"," ","I","N","T","O"," ","p","r","o","d","u","c","t","s","(","n","a","m","e",",","p","r","i","c","e",")"," ","V","A","L","U","E","S","(","'","x","'",",","1",")">>

(* ------------------------- the SQLite database ------------------------ *)
\* A database file: its user tables, and whether the internal table
\* sqlite_sequence exists (SQLite creates it with the first AUTOINCREMENT
\* table and never drops it).  A table keeps its row count, its column count,
\* whether its key is AUTOINCREMENT, whether column "note" was added and
\* whether some row has price = 2.
EmptyDb == [tbl |-> {}, seq |-> FALSE]

Exists(d, n) == \E t \in d.tbl : t.name = n
Table(d, n) == CHOOSE t \in d.tbl : t.name = n

\* names in sqlite_master with type = 'table'
MasterTables(d) == {t.name : t \in d.tbl} \cup (IF d.seq THEN {sqlite_sequence} ELSE {})

NoExc == [cls |-> "", msg |-> <<>>]
OperationalError(m) == [cls |-> "sqlite3.OperationalError", msg |-> m]

\* outcome of cursor.execute(): the connection's view of the database after
\* the statement, cursor.rowcount, the rows fetchall() would give (their
\* number; the names for the sqlite_master query) and whether the sqlite3
\* module opened an implicit transaction for the statement (it does for DML)
Done(d, rc, n, nm, tx) ==
  [err |-> FALSE, exc |-> NoExc, db |-> d, rowcount |-> rc, nrows |-> n, names |-> nm, intxn |-> tx]
Failed(d, e) ==
  [err |-> TRUE, exc |-> e, db |-> d, rowcount |-> -1, nrows |-> 0, names |-> <<>>, intxn |-> FALSE]

NoSuchTable(n) == OperationalError(<<"no such table: ">> \o n)

CreateTable(d, n, cols, auto) ==
  IF Exists(d, n) \/ n = sqlite_sequence
    THEN Failed(d, OperationalError(<<"table ">> \o n \o <<" already exists">>))
    ELSE Done([tbl |-> d.tbl \cup {[name |-> n, rows |-> 0, ncols |-> cols, autoinc |-> auto,
                                    note |-> FALSE, repriced |-> FALSE]},
               seq |-> d.seq \/ auto],
              -1, 0, <<>>, FALSE)

DropTable(d, n, ifExists) ==
  IF Exists(d, n)
    THEN Done([d EXCEPT !.tbl = d.tbl \ {Table(d, n)}], -1, 0, <<>>, FALSE)
    ELSE IF ifExists THEN Done(d, -1, 0, <<>>, FALSE) ELSE Failed(d, NoSuchTable(n))

SetTable(d, n, t) == [d EXCEPT !.tbl = (d.tbl \ {Table(d, n)}) \cup {t}]

InsertRow(d, n) ==
  IF Exists(d, n)
    THEN Done(SetTable(d, n, [Table(d, n) EXCEPT !.rows = @ + 1]), 1, 0, <<>>, TRUE)
    ELSE Failed(d, NoSuchTable(n))

UpdatePrice(d, n) ==
  IF Exists(d, n)
    THEN Done(SetTable(d, n, [Table(d, n) EXCEPT !.repriced = (Table(d, n).rows > 0)]),
              Table(d, n).rows, 0, <<>>, TRUE)
    ELSE Failed(d, NoSuchTable(n))

DeleteRows(d, n) ==
  IF Exists(d, n)
    THEN Done(SetTable(d, n, [Table(d, n) EXCEPT !.rows = 0, !.repriced = FALSE]),
              Table(d, n).rows, 0, <<>>, TRUE)
    ELSE Failed(d, NoSuchTable(n))

AddNoteColumn(d, n) ==
  IF ~Exists(d, n) THEN Failed(d, NoSuchTable(n))
  ELSE IF Table(d, n).note THEN Failed(d, OperationalError(<<"duplicate column name: note">>))
  ELSE Done(SetTable(d, n, [Table(d, n) EXCEPT !.note = TRUE, !.ncols = @ + 1]), -1, 0, <<>>, FALSE)

SelectAll(d, n) ==
  IF Exists(d, n) THEN Done(d, -1, Table(d, n).rows, <<>>, FALSE) ELSE Failed(d, NoSuchTable(n))

SelectTableNames(d) ==
  Done(d, -1, Cardinality(MasterTables(d)), OrderByName(MasterTables(d)), FALSE)

TableInfo(d, n) ==
  Done(d, -1, IF Exists(d, n) THEN Table(d, n).ncols ELSE 0, <<>>, FALSE)

SyntaxError(q) == OperationalError(<<"near \"">> \o q \o <<"\": syntax error">>)

\* cursor.execute(query) on a fresh connection to the database file
Execute(d, q) ==
  CASE q = QListTables -> SelectTableNames(d)
    [] startswith(q, PragmaHead) ->
         TableInfo(d, SubSeq(q, Len(PragmaHead) + 1, Len(q) - Len(PragmaTail)))
    [] q = QSelect  -> SelectAll(d, products)
    [] q = QInsert  -> InsertRow(d, products)
    [] q = QReplace -> InsertRow(d, products)
    [] q = QUpdate  -> UpdatePrice(d, products)
    [] q = QDelete  -> DeleteRows(d, products)
    [] q = QCreate  -> CreateTable(d, products, 3, FALSE)
    [] q = QDrop    -> DropTable(d, products, FALSE)
    [] q = QAlter   -> AddNoteColumn(d, products)
    [] OTHER        -> Failed(d, SyntaxError(q))

\* SqliteDatabase._execute_query without the commit (the faulty variant with a forgotten
\* conn.commit()): the connection is closed with its transaction still open
execute_query_no_commit(d, q) ==
  LET r == Execute(d, q)
  IN IF r.err THEN [raised |-> TRUE, exc |-> r.exc, db |-> d, kind |-> "none", n |-> 0, names |-> <<>>]
     ELSE IF startswith_any(upper(strip(q)), MutationPrefixes)
       THEN [raised |-> FALSE, exc |-> NoExc, db |-> IF r.intxn THEN d ELSE r.db,
             kind |-> "affected_rows", n |-> r.rowcount, names |-> <<>>]
       ELSE [raised |-> FALSE, exc |-> NoExc, db |-> IF r.intxn THEN d ELSE r.db,
             kind |-> "rows", n |-> r.nrows, names |-> r.names]

\* SqliteDatabase._execute_query: open a connection, execute, commit and
\* report cursor.rowcount for a mutation prefix, else fetch all rows; closing
\* the connection rolls back a transaction that was not committed
execute_query(d, q) ==
  LET r == Execute(d, q)
  IN IF r.err THEN [raised |-> TRUE, exc |-> r.exc, db |-> d, kind |-> "none", n |-> 0, names |-> <<>>]
     ELSE IF startswith_any(upper(strip(q)), MutationPrefixes)
       THEN [raised |-> FALSE, exc |-> NoExc, db |-> r.db,
             kind |-> "affected_rows", n |-> r.rowcount, names |-> <<>>]
       ELSE [raised |-> FALSE, exc |-> NoExc, db |-> IF r.intxn THEN d ELSE r.db,
             kind |-> "rows", n |-> r.nrows, names |-> r.names]

(* ------------------------------ create_db.py -------------------------- *)
SeedUsers == 5
SeedProducts == 5
SeedOrders == 20

\* a loop of k INSERT statements into table n (k rows more)
InsertRows(d, n, k) ==
  IF Exists(d, n) THEN SetTable(d, n, [Table(d, n) EXCEPT !.rows = @ + k]) ELSE d

\* create_tables(cur): DROP TABLE IF EXISTS x3, then the three CREATE TABLE
\* statements, each with an INTEGER PRIMARY KEY AUTOINCREMENT id
create_tables(d) ==
  LET d1 == DropTable(d, orders, TRUE).db
      d2 == DropTable(d1, products, TRUE).db
      d3 == DropTable(d2, users, TRUE).db
      d4 == CreateTable(d3, users, 4, TRUE).db
      d5 == CreateTable(d4, products, 3, TRUE).db
  IN CreateTable(d5, orders, 5, TRUE).db

seed_users(d) == InsertRows(d, users, SeedUsers)
seed_products(d) == InsertRows(d, products, SeedProducts)
seed_orders(d) == InsertRows(d, orders, SeedOrders)

\* main(): create the tables, seed them, commit
create_db_main(d) == seed_orders(seed_products(seed_users(create_tables(d))))

(* ------------------------------ the server ---------------------------- *)
VARIABLES
  db,        \* the database file database.db (committed contents)
  insights,  \* db.insights, the process-wide insight log
  pc,        \* per connection: "idle", or "sending" while its append_insight
             \* handler is suspended in "await ...send_resource_updated(...)"
  item,      \* per connection: the insight its suspended handler appended
  updates,   \* the resource-updated notifications sent so far (their URIs)
  last,      \* the step taken last: the request, and what the handler did
  okAppends, \* history: the insights of the append_insight calls that returned success
  errAppends, \* history: the insights of the append_insight calls that appended and
             \* then returned an error
  client     \* an agent.py process: its program, where it is in main(), what
             \* it printed, and its exit code once it ended

vars == <<db, insights, pc, item, updates, last, okAppends, errAppends, client>>

\* the connected SSE clients, each served by its own server.run task
Conns == {"a", "b"}

MemoUri == [scheme |-> "memo", host |-> "insights"]
Uris == {MemoUri, [scheme |-> "memo", host |-> "other"], [scheme |-> "file", host |-> "insights"]}

\* the tool names _list_tools() returns, in its order
ToolNames == <<"create_table", "read_query", "write_query", "list_tables", "describe_table", "append_insight">>
list_tools == ToolNames
Registered == {ToolNames[i] : i \in 1..Len(ToolNames)}

\* requested names: the registered ones and some that are not
Names == Registered \cup {"drop_table", "LIST_TABLES", ""}

Queries == {QSelect, QSelected, QInsert, QReplace, QUpdate, QDelete, QCreate, QDrop, QAlter}
\* the statements tried while insights are being appended concurrently
FewQueries == {QSelect, QCreate, QDrop}
Insights == {"X", "Y"}
TableArgs == {products, sqlite_sequence, nosuch, <<>>}

\* an argument mapping: None, or a dict with the keys in "has"
NoneArgs == [none |-> TRUE, has |-> {}, query |-> <<>>, table_name |-> <<>>, insight |-> "", topic |-> ""]
Dict == [NoneArgs EXCEPT !.none = FALSE]
WithQuery(q) == [Dict EXCEPT !.has = {"query"}, !.query = q]
WithTable(t) == [Dict EXCEPT !.has = {"table_name"}, !.table_name = t]
WithInsight(i) == [Dict EXCEPT !.has = {"insight"}, !.insight = i]
\* the argument mappings tried with a tool name, the statements drawn from Q
ArgsFor(name, Q) ==
  {NoneArgs, Dict} \cup
  CASE name \in {"create_table", "read_query", "write_query"} -> {WithQuery(q) : q \in Q}
    [] name = "describe_table" -> {WithTable(t) : t \in TableArgs}
    [] name = "append_insight" -> {WithInsight(i) : i \in Insights} \cup {WithQuery(QSelect)}
    [] name = "drop_table" -> {WithQuery(QDrop)}
    [] OTHER -> {}
PromptArgs == {NoneArgs, Dict, [Dict EXCEPT !.has = {"topic"}, !.topic = "retail"]}

\* "if args": None and the empty dict are falsy
Truthy(args) == ~args.none /\ args.has # {}

ValueError(m) == [cls |-> "ValueError", msg |-> m]
\* args[key] failing: on None a TypeError, on a dict without the key a KeyError
SubscriptError(args, key) ==
  IF args.none THEN [cls |-> "TypeError", msg |-> <<"'NoneType' object is not subscriptable">>]
  ELSE [cls |-> "KeyError", msg |-> <<"'", key, "'">>]
\* what the session raises when the notification cannot be written
SendErrors == {[cls |-> "anyio.ClosedResourceError", msg |-> <<>>],
               [cls |-> "anyio.BrokenResourceError", msg |-> <<>>]}

\* the classes "except Exception" catches: all of the above derive from Exception
ExceptionClasses == {"ValueError", "TypeError", "KeyError", "sqlite3.OperationalError",
                     "anyio.ClosedResourceError", "anyio.BrokenResourceError"}

\* types.TextContent(type="text", text=...): the text as its pieces in order;
\* str(rows) is kept as the rows' kind, their number and (for names) the names
TextContent(k, n, nm, tx) == [type |-> "text", kind |-> k, n |-> n, names |-> nm, text |-> tx]
Message(tx) == TextContent("message", 0, <<>>, tx)

\* what the body of the try block does: return a value or raise, the database
\* afterwards, and the statements it handed to db._execute_query
Return(d, c, ex) == [raised |-> FALSE, exc |-> NoExc, db |-> d, content |-> <<c>>, executed |-> ex]
Raise(d, e, ex) == [raised |-> TRUE, exc |-> e, db |-> d, content |-> <<>>, executed |-> ex]

\* rows = db._execute_query(q); return [TextContent(text=str(rows))]
RunQuery(d, q) ==
  LET r == execute_query(d, q)
  IN IF r.raised THEN Raise(d, r.exc, <<q>>)
     ELSE Return(r.db, TextContent(r.kind, r.n, r.names, <<>>), <<q>>)

\* read_query's test, without the strip() (faulty variant: a forgotten strip)
read_query_allowed_no_strip(q) == startswith(upper(q), SELECT_KW)

\* read_query: q.strip().upper().startswith("SELECT")
read_query_allowed(q) == startswith(upper(strip(q)), SELECT_KW)

\* write_query's test, without the upper() (faulty variant: a case-sensitive test)
write_query_refused_case_sensitive(q) == startswith(strip(q), SELECT_KW)

\* write_query: q.strip().upper().startswith("SELECT")
write_query_refused(q) == startswith(upper(strip(q)), SELECT_KW)

\* create_table: q.strip().upper().startswith("CREATE TABLE")
create_table_allowed(q) == startswith(upper(strip(q)), CREATE_TABLE_KW)

\* the last line of the try block with the name left out of the message (faulty variant)
UnknownToolUnnamed(d, name) == Raise(d, ValueError(<<"Unknown tool">>), <<>>)

\* raise ValueError(f"Unknown tool: {name}")
UnknownTool(d, name) == Raise(d, ValueError(<<"Unknown tool: ", name>>), <<>>)

\* the try block of _call_tool for every tool but append_insight
ToolBody(d, name, args) ==
  CASE name = "list_tables" -> RunQuery(d, QListTables)
    [] name = "describe_table" ->
         IF ~Truthy(args) \/ "table_name" \notin args.has \/ args.table_name = <<>>
           THEN Raise(d, ValueError(<<"Missing 'table_name'">>), <<>>)
           ELSE RunQuery(d, PragmaHead \o args.table_name \o PragmaTail)
    [] name = "create_table" ->
         IF args.none \/ "query" \notin args.has THEN Raise(d, SubscriptError(args, "query"), <<>>)
         ELSE IF ~create_table_allowed(args.query)
           THEN Raise(d, ValueError(<<"create_table only supports CREATE TABLE">>), <<>>)
           ELSE RunQuery(d, args.query)
    [] name = "read_query" ->
         IF args.none \/ "query" \notin args.has THEN Raise(d, SubscriptError(args, "query"), <<>>)
         ELSE IF ~read_query_allowed(args.query)
           THEN Raise(d, ValueError(<<"read_query only supports SELECT">>), <<>>)
           ELSE RunQuery(d, args.query)
    [] name = "write_query" ->
         IF args.none \/ "query" \notin args.has THEN Raise(d, SubscriptError(args, "query"), <<>>)
         ELSE IF write_query_refused(args.query)
           THEN Raise(d, ValueError(<<"write_query does not support SELECT">>), <<>>)
           ELSE RunQuery(d, args.query)
    [] name = "append_insight" -> Raise(d, SubscriptError(args, "insight"), <<>>)
    [] OTHER -> UnknownTool(d, name)

\* a handler that catches ValueError alone (faulty variant of "except Exception")
CatchValueError(o) ==
  IF o.raised /\ o.exc.cls = "ValueError"
    THEN [o EXCEPT !.raised = FALSE, !.content = <<Message(<<"Error: ">> \o o.exc.msg)>>]
    ELSE o

\* except Exception as e: return [TextContent(type="text", text=f"Error: {e}")]
CatchException(o) ==
  IF o.raised /\ o.exc.cls \in ExceptionClasses
    THEN [o EXCEPT !.raised = FALSE, !.content = <<Message(<<"Error: ">> \o o.exc.msg)>>]
    ELSE o

\* an append that inserts at the front (faulty variant)
ListPrepend(log, x) == <<x>> \o log

\* an append that writes over the last entry, as a lost update would (faulty variant)
ListOverwrite(log, x) == IF log = <<>> THEN <<x>> ELSE [log EXCEPT ![Len(log)] = x]

\* list.append
ListAppend(log, x) == Append(log, x)

\* digits of a natural number, as str() prints them
Digits == <<"0","1","2","3","4","5","6","7","8","9">>
RECURSIVE Str(_)
Str(n) == IF n < 10 THEN <<Digits[n + 1]>> ELSE Str(n \div 10) \o <<Digits[(n % 10) + 1]>>

\* "\n".join(f"- {i}" for i in log)
RECURSIVE Bullets(_)
Bullets(log) ==
  IF log = <<>> THEN <<>>
  ELSE IF Len(log) = 1 THEN <<"- ", log[1]>>
  ELSE <<"- ", log[1], "\n">> \o Bullets(Tail(log))

\* synthesize_memo with the summary added from the first insight on (faulty variant)
synthesize_memo_always_summary(log) ==
  IF log = <<>> THEN <<"No business insights have been recorded yet.">>
  ELSE <<"Business Insights Memo\n\nKey Insights:\n">> \o Bullets(log)
       \o <<"\n\nSummary:\n">> \o Str(Len(log)) \o <<" insights suggest strategic opportunities.">>

\* SqliteDatabase.synthesize_memo (the title's two emoji are left out)
synthesize_memo(log) ==
  IF log = <<>> THEN <<"No business insights have been recorded yet.">>
  ELSE <<"Business Insights Memo\n\nKey Insights:\n">> \o Bullets(log)
       \o (IF Len(log) > 1
             THEN <<"\n\nSummary:\n">> \o Str(Len(log)) \o <<" insights suggest strategic opportunities.">>
             ELSE <<>>)

Step(op, name, args, o) ==
  [op |-> op, name |-> name, args |-> args, raised |-> o.raised, exc |-> o.exc,
   content |-> o.content, executed |-> o.executed]

\* no agent.py started yet
ClientOff ==
  [prog |-> "", pc |-> "off", line |-> <<>>, printed |-> <<>>, stderr |-> <<>>, code |-> 0,
   turns |-> 0, runs |-> 0, ev |-> "none"]

Init ==
  /\ db = EmptyDb
  /\ insights = <<>>
  /\ pc = [c \in Conns |-> "idle"]
  /\ item = [c \in Conns |-> ""]
  /\ updates = <<>>
  /\ okAppends = <<>>
  /\ errAppends = <<>>
  /\ client = ClientOff
  /\ last = Step("start", "", NoneArgs, Return(EmptyDb, Message(<<>>), <<>>))

(* ------------------------------ operations ---------------------------- *)
\* python create_db.py, run against the same database.db
Seed ==
  /\ db' = create_db_main(db)
  /\ last' = Step("create_db", "", NoneArgs, Return(db', Message(<<"Dummy database created: database.db">>), <<>>))
  /\ UNCHANGED <<insights, pc, item, updates, okAppends, errAppends, client>>

HasInsight(args) == ~args.none /\ "insight" \in args.has

\* _call_tool(name, args) for a call that never reaches the await: the whole
\* handler runs without suspending
CallTool(c, name, args) ==
  /\ pc[c] = "idle"
  /\ ~(name = "append_insight" /\ HasInsight(args))
  /\ LET o == CatchException(ToolBody(db, name, args))
     IN /\ \A t \in o.db.tbl : t.name = products => t.rows <= MaxRows
        /\ db' = o.db
        /\ last' = Step("call_tool", name, args, o)
  /\ UNCHANGED <<insights, pc, item, updates, okAppends, errAppends, client>>

\* _call_tool("append_insight", args) up to its await: itm = args["insight"];
\* db.insights.append(itm); then the handler suspends in the send
AppendInsight(c, args) ==
  /\ pc[c] = "idle"
  /\ HasInsight(args)
  /\ Len(insights) < MaxInsights
  /\ insights' = ListAppend(insights, args.insight)
  /\ pc' = [pc EXCEPT ![c] = "sending"]
  /\ item' = [item EXCEPT ![c] = args.insight]
  /\ last' = [op |-> "call_tool_await", name |-> "append_insight", args |-> args,
              raised |-> FALSE, exc |-> NoExc, content |-> <<>>, executed |-> <<>>]
  /\ UNCHANGED <<db, updates, okAppends, errAppends, client>>

\* a send that writes the notification twice (faulty variant)
send_resource_updated_twice(u, uri) == Append(Append(u, uri), uri)

\* session.send_resource_updated(uri) completing
send_resource_updated(u, uri) == Append(u, uri)

\* the await returns: return [TextContent(text="Insight appended")]
SendDone(c) ==
  /\ pc[c] = "sending"
  /\ updates' = send_resource_updated(updates, MemoUri)
  /\ pc' = [pc EXCEPT ![c] = "idle"]
  /\ item' = [item EXCEPT ![c] = ""]
  /\ last' = Step("call_tool", "append_insight",
                  WithInsight(item[c]),
                  CatchException(Return(db, Message(<<"Insight appended">>), <<>>)))
  /\ okAppends' = Append(okAppends, item[c])
  /\ UNCHANGED <<db, insights, errAppends, client>>

\* the await raises: nothing was sent, the except clause returns the error
SendFailed(c, e) ==
  /\ pc[c] = "sending"
  /\ pc' = [pc EXCEPT ![c] = "idle"]
  /\ item' = [item EXCEPT ![c] = ""]
  /\ last' = Step("call_tool", "append_insight",
                  WithInsight(item[c]),
                  CatchException(Raise(db, e, <<>>)))
  /\ errAppends' = Append(errAppends, item[c])
  /\ UNCHANGED <<db, insights, updates, okAppends, client>>

\* _list_resources()
ListResources(c) ==
  /\ pc[c] = "idle"
  /\ last' = Step("list_resources", "", NoneArgs, Return(db, Message(<<"memo://insights">>), <<>>))
  /\ UNCHANGED <<db, insights, pc, item, updates, okAppends, errAppends, client>>

\* _read_resource(uri)
ReadResource(c, uri) ==
  /\ pc[c] = "idle"
  /\ last' = Step("read_resource", uri.host, NoneArgs,
                  IF uri.scheme # "memo" \/ uri.host # "insights"
                    THEN Raise(db, ValueError(<<"Unknown resource: ", uri.scheme, "://", uri.host>>), <<>>)
                    ELSE Return(db, Message(synthesize_memo(insights)), <<>>))
  /\ UNCHANGED <<db, insights, pc, item, updates, okAppends, errAppends, client>>

\* _list_prompts()
ListPrompts(c) ==
  /\ pc[c] = "idle"
  /\ last' = Step("list_prompts", "", NoneArgs, Return(db, Message(<<"mcp-demo">>), <<>>))
  /\ UNCHANGED <<db, insights, pc, item, updates, okAppends, errAppends, client>>

\* _get_prompt(name, args)
GetPrompt(c, name, args) ==
  /\ pc[c] = "idle"
  /\ last' = Step("get_prompt", name, args,
                  IF name # "mcp-demo" \/ ~Truthy(args) \/ "topic" \notin args.has
                    THEN Raise(db, ValueError(<<"Prompt 'mcp-demo' requires a 'topic' argument">>), <<>>)
                    ELSE Return(db, Message(<<"You are demonstrating an SQLite MCP Server demo for topic: ",
                                              args.topic, ".">>), <<>>))
  /\ UNCHANGED <<db, insights, pc, item, updates, okAppends, errAppends, client>>

\* _list_tools()
ListTools(c) ==
  /\ pc[c] = "idle"
  /\ last' = Step("list_tools", "", NoneArgs, Return(db, Message(list_tools), <<>>))
  /\ UNCHANGED <<db, insights, pc, item, updates, okAppends, errAppends, client>>

\* every operation, with a few statements
Next ==
  \/ \E c \in Conns, name \in Names : \E args \in ArgsFor(name, FewQueries) : CallTool(c, name, args)
  \/ \E c \in Conns, args \in ArgsFor("append_insight", {}) : AppendInsight(c, args)
  \/ \E c \in Conns : SendDone(c)
  \/ \E c \in Conns, e \in SendErrors : SendFailed(c, e)
  \/ \E c \in Conns : ListResources(c)
  \/ \E c \in Conns, uri \in Uris : ReadResource(c, uri)
  \/ \E c \in Conns : ListPrompts(c)
  \/ \E c \in Conns, name \in {"mcp-demo", "other"}, args \in PromptArgs : GetPrompt(c, name, args)
  \/ \E c \in Conns : ListTools(c)

Spec == Init /\ [][Next]_vars

\* one client working on the database, seeded or not, with every statement
NextSql ==
  \/ Seed
  \/ \E name \in Names : \E args \in ArgsFor(name, Queries) : CallTool("a", name, args)
  \/ ListTools("a")

SpecSql == Init /\ [][NextSql]_vars

(* ------------------------------ the clients --------------------------- *)
\* the three agent.py programs
Programs == {"sqlite", "multi", "github"}
serverVars == <<db, insights, pc, item, updates, last, okAppends, errAppends>>

LineHello == <<"h","e","l","l","o">>
LineTables == <<" ","l","i","s","t"," ","t","a","b","l","e","s"," ">>
LineExitWord == <<" ","E","x","i","t">>
LineSlashExit == <<"/","e","x","i","t">>
LineBlank == <<" "," ">>
SLASH_EXIT == <<"/","e","x","i","t">>
EXIT == <<"e","x","i","t">>

\* what the user types at "You: "
Lines == {<<>>, LineBlank, LineHello, LineTables, LineExitWord, LineSlashExit}
\* what input() raises instead of returning a line
InputSignals == {"EOFError", "KeyboardInterrupt"}
\* result.output of a model round trip that succeeds
Answers == {"There are 5 products.", "ok"}
\* what agent.run raises when the round trip fails
RunErrors == {"ModelHTTPError", "UnexpectedModelBehavior"}

\* the exception classes of the except clause around "await agent.run(...)":
\* in the github client the try encloses the whole loop; in the other two it
\* encloses input() alone
ExceptAroundRun(prog) == IF prog = "github" THEN {"EOFError", "KeyboardInterrupt"} ELSE {}

\* not user_input or user_input.lower() in ("/exit", "exit")
IsQuit(s) == s = <<>> \/ lower(s) \in {SLASH_EXIT, EXIT}

\* python agent.py: main() up to the first prompt
StartClient(prog) ==
  /\ client.pc = "off"
  /\ client' = [client EXCEPT !.prog = prog, !.pc = "input", !.ev = "started",
                  !.printed = <<<<"Connecting to MCP server...">>, <<"Connected! Start chatting.">>>>]
  /\ UNCHANGED serverVars

\* user_input = input("You: ").strip(), then the quit test
ReadLine(l) ==
  /\ client.pc = "input"
  /\ LET s == strip(l)
     IN IF IsQuit(s)
          THEN client' = [client EXCEPT !.pc = "exited", !.code = 0, !.ev = "quit", !.line = s,
                            !.printed = Append(@, <<"Goodbye!">>)]
          ELSE /\ client.turns < MaxTurns
               /\ client' = [client EXCEPT !.pc = "running", !.line = s, !.ev = "forwarded",
                               !.turns = @ + 1, !.runs = 1]
  /\ UNCHANGED serverVars

\* input() raises EOFError or KeyboardInterrupt: print("\nGoodbye!") and
\* return (sys.exit(0) in the github client)
InputInterrupted(sig) ==
  /\ client.pc = "input"
  /\ client' = [client EXCEPT !.pc = "exited", !.code = 0, !.ev = "interrupted",
                  !.printed = Append(@, <<"\nGoodbye!">>)]
  /\ UNCHANGED serverVars

\* result = await agent.run(user_input); print("Bot:", result.output)
RunDone(out) ==
  /\ client.pc = "running"
  /\ client' = [client EXCEPT !.pc = "input", !.ev = "answered", !.runs = 0,
                  !.printed = Append(@, <<"Bot:", out>>)]
  /\ UNCHANGED serverVars

\* await agent.run(user_input) raises e: an enclosing except clause that names
\* e's class handles it; otherwise e leaves main() and asyncio.run(), the
\* interpreter writes the traceback and the process ends with code 1
RunFailed(e) ==
  /\ client.pc = "running"
  /\ IF e \in ExceptAroundRun(client.prog)
       THEN client' = [client EXCEPT !.pc = "exited", !.code = 0, !.ev = "run_failed",
                         !.printed = Append(@, <<"\nGoodbye!">>)]
       ELSE client' = [client EXCEPT !.pc = "crashed", !.code = 1, !.ev = "run_failed",
                         !.stderr = Append(@, <<"Traceback (most recent call last):", e>>)]
  /\ UNCHANGED serverVars

NextClient ==
  \/ \E prog \in Programs : StartClient(prog)
  \/ \E l \in Lines : ReadLine(l)
  \/ \E sig \in InputSignals : InputInterrupted(sig)
  \/ \E out \in Answers : RunDone(out)
  \/ \E e \in RunErrors : RunFailed(e)

SpecClient == Init /\ [][NextClient]_vars

(* ------------------------------ properties ---------------------------- *)
\* a completed _call_tool
Called == last.op = "call_tool"
CalledP == last'.op = "call_tool"
\* the one block of the result, and whether it is an error result
Block == last.content[1]
IsError(b) == b.kind = "message" /\ Len(b.text) >= 1 /\ b.text[1] = "Error: "
\* the statement a query tool was given
HasQuery(args) == ~args.none /\ "query" \in args.has
StartsWith(q, kw) == startswith(upper(strip(q)), kw)
Range(s) == {s[i] : i \in 1..Len(s)}
Count(s, v) == Cardinality({i \in 1..Len(s) : s[i] = v})

\* C1: whatever the tool name and the argument mapping, and whatever fails
\* while the call is handled (validation, SQLite, sending the notification),
\* _call_tool returns one text block instead of raising, and a failure's
\* block is "Error: " followed by the failure's message.
C1_NeverRaises ==
  Called =>
    /\ ~last.raised
    /\ Len(last.content) = 1
    /\ Block.type = "text"
    /\ (last.exc # NoExc => Block = Message(<<"Error: ">> \o last.exc.msg))
    /\ (last.exc = NoExc => ~IsError(Block))

C1_Witness ==
  /\ Called /\ last.name = "append_insight"
  /\ last.exc \in SendErrors
  /\ IsError(Block)

\* further cases of C1 that are reached: a SQLite failure, a missing mapping
C1_WitnessSqlite == Called /\ last.exc.cls = "sqlite3.OperationalError" /\ IsError(Block)
C1_WitnessNoArgs == Called /\ last.args.none /\ last.exc.cls = "TypeError" /\ IsError(Block)

\* C2: a call whose name _list_tools does not return gives the error result
\* "Unknown tool: <name>" with the requested name, does not raise, executes no
\* statement and leaves the insight log (and the database) as they were.
C2_UnknownTool ==
  /\ [](Called /\ last.name \notin Range(list_tools) =>
          /\ ~last.raised
          /\ last.content = <<Message(<<"Error: ", "Unknown tool: ", last.name>>)>>
          /\ last.executed = <<>>)
  /\ [][CalledP /\ last'.name \notin Range(list_tools) => insights' = insights /\ db' = db]_vars

C2_Witness ==
  /\ Called /\ last.name = "LIST_TABLES"
  /\ IsError(Block)
  /\ insights # <<>> /\ Exists(db, products)

\* C3 as claimed: read_query returns an error and executes nothing for a
\* statement that does not start with SELECT, and returns row data for every
\* statement that does.
C3_AsClaimed ==
  Called /\ last.name = "read_query" /\ HasQuery(last.args) =>
    IF StartsWith(last.args.query, SELECT_KW)
      THEN Block.kind = "rows"
      ELSE IsError(Block) /\ last.executed = <<>>

\* C3 as amended: read_query returns an error and executes nothing for a
\* statement that does not start with SELECT; a statement that does is handed
\* to SQLite, never yields an affected-row count, and yields row data exactly
\* when SQLite executes it without error (else the error result with SQLite's
\* message).
C3_ReadQuery ==
  Called /\ last.name = "read_query" /\ HasQuery(last.args) =>
    IF StartsWith(last.args.query, SELECT_KW)
      THEN /\ last.executed = <<last.args.query>>
           /\ Block.kind # "affected_rows"
           /\ Block.kind = "rows" <=> last.exc = NoExc
           /\ last.exc # NoExc => IsError(Block) /\ last.exc.cls = "sqlite3.OperationalError"
      ELSE /\ IsError(Block)
           /\ last.executed = <<>>
           /\ Block.text = <<"Error: ", "read_query only supports SELECT">>

C3_Witness ==
  /\ Called /\ last.name = "read_query" /\ last.args.query = QSelect
  /\ Block.kind = "rows" /\ Block.n = SeedProducts

C3_WitnessRefused ==
  Called /\ last.name = "read_query" /\ last.args.query = QDelete /\ IsError(Block)

\* C4: write_query given a statement that starts with SELECT (any case, after
\* trimming) returns an error result, does not raise, hands nothing to the
\* database and leaves the database as it was.
C4_WriteQueryRefusesSelect ==
  /\ [](Called /\ last.name = "write_query" /\ HasQuery(last.args)
          /\ StartsWith(last.args.query, SELECT_KW) =>
            /\ ~last.raised
            /\ Block.text = <<"Error: ", "write_query does not support SELECT">>
            /\ last.executed = <<>>)
  /\ [][CalledP /\ last'.name = "write_query" /\ HasQuery(last'.args)
          /\ StartsWith(last'.args.query, SELECT_KW) => db' = db]_vars

C4_Witness ==
  /\ Called /\ last.name = "write_query" /\ last.args.query = QSelect
  /\ IsError(Block) /\ Exists(db, products)

\* C5: a statement starting with INSERT, UPDATE, DELETE, CREATE, DROP or ALTER
\* that executes without error is committed before _execute_query returns
\* (the database file then holds the statement's effect, which every later
\* call reads) and the result is cursor.rowcount as "affected_rows", not rows.
C5_MutationCommits ==
  [][CalledP /\ last'.executed # <<>> /\ last'.exc = NoExc
       /\ startswith_any(upper(strip(last'.executed[1])), MutationPrefixes) =>
         /\ db' = Execute(db, last'.executed[1]).db
         /\ last'.content[1].kind = "affected_rows"
         /\ last'.content[1].n = Execute(db, last'.executed[1]).rowcount]_vars

\* a later read_query sees the row an earlier write_query inserted
C5_Witness ==
  /\ Called /\ last.name = "read_query" /\ last.args.query = QSelect
  /\ Block.kind = "rows" /\ Block.n = SeedProducts + 1

\* a completed read of memo://insights, and the memo it returned
ReadMemo == last.op = "read_resource" /\ ~last.raised
Memo == last.content[1].text
\* the items of the memo's bullet lines "- <item>", in the memo's order
RECURSIVE ItemsFrom(_, _)
ItemsFrom(m, i) ==
  IF i >= Len(m) THEN <<>>
  ELSE IF m[i] = "- " THEN <<m[i + 1]>> \o ItemsFrom(m, i + 2)
  ELSE ItemsFrom(m, i + 1)
\* the memo ends with the summary line reporting n insights
TailReports(m, n) ==
  /\ Len(m) >= 3
  /\ m[Len(m) - 2] = "\n\nSummary:\n"
  /\ m[Len(m) - 1] = Digits[n + 1]
  /\ m[Len(m)] = " insights suggest strategic opportunities."
AllIdle == \A c \in Conns : pc[c] = "idle"
InFlight(v) == Cardinality({c \in Conns : pc[c] = "sending" /\ item[c] = v})

\* C6: reading memo://insights gives one bullet "- X" per logged insight, in
\* append order; the fixed text when there is none, no summary when there is
\* one, and a tail line reporting their number when there are more; and once
\* n append_insight calls have succeeded (none in flight, none failed after
\* appending) the log holds exactly their n insights.
C6_MemoListsInsights ==
  ReadMemo =>
    /\ insights = <<>> => Memo = <<"No business insights have been recorded yet.">>
    /\ insights # <<>> => ItemsFrom(Memo, 1) = insights
    /\ Len(insights) = 1 => "\n\nSummary:\n" \notin Range(Memo)
    /\ Len(insights) > 1 => TailReports(Memo, Len(insights))
    /\ (AllIdle /\ errAppends = <<>>) =>
         /\ Len(insights) = Len(okAppends)
         /\ \A v \in Insights : Count(insights, v) = Count(okAppends, v)

C6_Witness ==
  /\ ReadMemo /\ AllIdle /\ errAppends = <<>>
  /\ okAppends = <<"X", "Y">> /\ insights = <<"X", "Y">>
  /\ TailReports(Memo, 2)

C6_WitnessOne == ReadMemo /\ okAppends = <<"X">> /\ insights = <<"X">> /\ Memo[Len(Memo)] = "X"

\* an append_insight call returning "Insight appended"
SuccessReturn(l) ==
  l.op = "call_tool" /\ l.name = "append_insight" /\ l.content = <<Message(<<"Insight appended">>)>>

\* C7: a step sends a resource-updated notification exactly when it is an
\* append_insight call returning success: then exactly one, carrying
\* memo://insights, with the call's insight already in the log; a rejected or
\* erroring append_insight and every other operation send none.
C7_OneNotificationPerAppend ==
  [][IF SuccessReturn(last')
       THEN updates' = Append(updates, MemoUri) /\ last'.args.insight \in Range(insights)
       ELSE updates' = updates]_vars

C7_Witness ==
  /\ SuccessReturn(last)
  /\ errAppends # <<>>
  /\ Len(updates) = 1 /\ Len(insights) = 2

\* a rejected append_insight (no 'insight' argument) after a successful one
C7_WitnessRejected ==
  Called /\ last.name = "append_insight" /\ last.exc.cls = "KeyError" /\ Len(updates) = 1

IsPrefix(s, t) == Len(s) <= Len(t) /\ SubSeq(t, 1, Len(s)) = s

\* C8: the insight log starts empty and every step leaves it a prefix of what
\* it becomes; only append_insight (reaching its append) changes it.
C8_LogAppendOnly ==
  /\ insights = <<>>
  /\ [][/\ IsPrefix(insights, insights')
        /\ insights' # insights => last'.op = "call_tool_await" /\ last'.name = "append_insight"]_vars

C8_Witness ==
  /\ Len(insights) >= 2
  /\ Called /\ last.name = "write_query" /\ last.exc = NoExc /\ last.executed # <<>>

\* C9: however the handlers of the connections interleave, every append that
\* was performed (its call in flight, returned, or failed in the send) has
\* exactly one entry in the log, and a memo read meanwhile reports that number.
C9_ConcurrentAppends ==
  /\ \A v \in Insights :
       Count(insights, v) = Count(okAppends, v) + Count(errAppends, v) + InFlight(v)
  /\ Range(insights) \subseteq Insights
  /\ ReadMemo /\ Len(insights) > 1 =>
       TailReports(Memo, Len(okAppends) + Len(errAppends) + Cardinality({c \in Conns : pc[c] = "sending"}))

\* two handlers suspended in their sends at once, both insights logged
C9_Witness ==
  /\ \A c \in Conns : pc[c] = "sending"
  /\ Len(insights) = 2
  /\ item["a"] # item["b"]

\* a memo read by one connection while the other's append is in flight
C9_WitnessRead == ReadMemo /\ pc["b"] = "sending" /\ Len(insights) = 2 /\ TailReports(Memo, 2)

FreshlySeeded == db = create_db_main(EmptyDb)

\* C10: list_tables on a database freshly seeded by create_db.py returns a
\* success result listing exactly users, products and orders, in
\* lexicographic order.
C10_ListTablesSeeded ==
  Called /\ last.name = "list_tables" /\ FreshlySeeded =>
    /\ ~IsError(Block)
    /\ Block.kind = "rows"
    /\ Block.names = <<orders, products, users>>

\* what list_tables returns there: SQLite's sqlite_sequence is listed too
C10_Observed ==
  Called /\ last.name = "list_tables" /\ FreshlySeeded =>
    Block.names = <<orders, products, sqlite_sequence, users>>

\* an append_insight call that returned an error result
ErrorReturn(l) ==
  l.op = "call_tool" /\ l.name = "append_insight" /\ Len(l.content) = 1 /\ IsError(l.content[1])

\* C12: an append_insight call that returns "Error: ..." (no 'insight'
\* argument, no argument mapping, or the notification could not be sent)
\* leaves the insight log as it was before the call: the log holds the
\* insights of the calls that succeeded or are still in flight, and no other.
C12_ErrorLeavesLogUnchanged ==
  ErrorReturn(last) =>
    \A v \in Insights : Count(insights, v) = Count(okAppends, v) + InFlight(v)

\* what the code does: a call rejected before the append leaves the log alone,
\* a call whose send failed returns the error with its insight still logged
C12_Observed ==
  /\ [](ErrorReturn(last) /\ last.exc \in SendErrors => last.args.insight \in Range(insights))
  /\ [](\A v \in Insights :
          Count(insights, v) = Count(okAppends, v) + Count(errAppends, v) + InFlight(v))
  /\ [][ErrorReturn(last') => insights' = insights]_vars

\* the step taken last was an agent.run that failed on a forwarded line
RunJustFailed == client.ev = "run_failed"

\* C11: in each client, when agent.run fails for a non-empty, non-exit line,
\* the failure is printed, the failed request is not retried, and the client
\* is back at the prompt waiting for the next line instead of having ended.
C11_LoopContinuesAfterFailure ==
  RunJustFailed =>
    /\ client.pc = "input"
    /\ client.runs <= 1
    /\ client.printed # <<>> /\ client.printed[Len(client.printed)][1] \notin {"Bot:", "Goodbye!"}

\* what the three programs do: nothing catches the failure, the process ends
\* with code 1, the interpreter's traceback is the only output, and the line
\* was given to agent.run once
C11_Observed ==
  RunJustFailed =>
    /\ client.pc = "crashed" /\ client.code = 1
    /\ client.runs = 1
    /\ client.stderr = <<<<"Traceback (most recent call last):", client.stderr[1][2]>>>>
    /\ client.stderr[1][2] \in RunErrors
    /\ ~IsQuit(client.line)

====
